---- MODULE Spec2Model ----
(***************************************************************************)
(* PixelStorm-Server: the room simulation engine and the connection layer  *)
(* of the game server (internal/game) and the matchmaking queue            *)
(* (internal/match).                                                        *)
(*                                                                          *)
(* Time is in milliseconds, positions in map units, velocities in units    *)
(* per second.  A Room is one instance; its game loop is a thread with a   *)
(* program counter, and roster operations are split where they block on a  *)
(* mutex.  playerMutex serialises AddPlayer and RemovePlayer, so at most   *)
(* one of them is ever past its Lock(): that one is the "caller".          *)
(***************************************************************************)
EXTENDS Integers, Sequences, FiniteSets, TLC

\* ---------------------------------------------------------------- bounds
MaxPlayers == 2      \* capacity given to NewRoom (matchmaking passes 4, 6 or 8)
MaxPlayerEntities == 3   \* player entities the room holds at once (roster and entity map)
MaxProjectiles == 1  \* projectiles created in one room
MaxFrames == 2       \* frames (update calls) of one game
TimeLimit == 10      \* Room.TimeLimit in seconds (NewRoom's default is 300)
ScoreLimit == 1      \* Room.ScoreLimit (NewRoom's default is 20)

Conns == {"c1", "c2", "c3"}
PlayerIDOf == [c \in Conns |-> IF c = "c1" THEN 1 ELSE IF c = "c2" THEN 2 ELSE 3]
SpawnPoints == {<<0, 0>>, <<100, 0>>}
DeltaTimes == {200, 5000}
LobbyDeltaTimes == {5000}
Damages == {50, 150}   \* half a player's health, and more than all of it
Directions == {<<0, 0>>}
SkillIDs == {1, 2, 3, 4}     \* the three skills of the table and an unknown id
\* UseSkill's normalised direction in thousandths: towards +x, and the zero
\* vector it keeps when the target is the player's own position
SkillDirections == {<<1000, 0>>, <<0, 0>>}
ProjectileSpeed == 500
ProjectileLifeTime == 6000
MaxSkillProjectiles == 3   \* projectiles that UseSkill calls create in one run

MaxRequests == 6     \* join_queue requests the match service receives
MatchModes == {"death_match", "team_death_match"}
MatchPlayers == {1, 2}

SendCapacity == 2    \* buffer of PlayerConnection.Send (handleWSConnection makes 256)
MaxPending == 2      \* closeConnection goroutines one connection has waiting
Clients == {"c1", "c2"}   \* the connections the connection layer is exercised with

MaxStarters == 2     \* Room.Start calls in progress at once
MaxClock == 420000   \* the wall clock of the idle sweep stops here (7 minutes)
Minutes == {60000}   \* the steps in which that clock moves

\* ---------------------------------------------------- program constants
IdleThreshold == 300000   \* 5 * time.Minute
EndedGrace == 120000      \* 2 * time.Minute
playerRadius == 20
projectileRadius == 10
RespawnDelay == 5
PlayerMaxHealth == 100
MinPlayers == 2

TeamNone == 0
TeamRed == 1
TeamBlue == 2

VARIABLES
  Mode, FriendlyFire,          \* room settings
  Status, isRunning, shutdown, \* lifecycle; shutdown = the channel is closed
  players,                     \* roster: connection id -> PlayerState
  entities,                    \* entity map: id -> entity
  scores,                      \* player id -> score
  frameID, lastFrameTime, StartedAt, EndedAt, lastActivity,
  playerMutex, entityMutex,    \* [w, r] and holder
  loop,                        \* the gameLoop goroutine
  caller,                      \* the AddPlayer / RemovePlayer past its Lock()
  now, nextID,
  applied,                     \* history: <<projectile, player>> -> damage applications
  ev,                          \* history: the last call, if it returned without acting
                               \* or was a matching pass; "-" after any other
  queues,                      \* MatchService.queues: mode -> requests, oldest first
  nextRequest,                 \* the requests are numbered as they arrive
  created,                     \* history: mode -> rooms asked of GameServer.CreateRoom
  matched,                     \* history: mode -> the batch the last pass matched
  fate,                        \* history: request -> times matched, times withdrawn
  notified,                    \* the requests whose player was sent the room of a match
  serverRunning,               \* GameServer.isRunning
  serverShutdown,              \* GameServer.shutdown is closed
  connections,                 \* GameServer.connections, by connection id
  Send,                        \* connection -> messages buffered in its Send channel
  closes,                      \* connection -> close(Send) calls executed
  pending,                     \* connection -> `go closeConnection` not yet run
  reading, writing,            \* the connections whose readPump / writePump runs
  otherRoster,                 \* the roster of a second room of GameServer.rooms
  stopping,                    \* a GameServer.Stop is before its httpServer.Shutdown
  panic,                       \* the runtime panic that ended the process, or "none"
  inRooms,                     \* the room is in GameServer.rooms
  sweep,                       \* cleanupRooms: where it is with this room
  starters,                    \* Room.Start calls between their test of isRunning and its setting
  loop2,                       \* a second gameLoop goroutine of the room
  cooldowns,                   \* <<player entity, skill>> -> PlayerEntity.SkillCooldowns entry
  readied                      \* the members whose last ready / unready message was `ready`

vars == <<Mode, FriendlyFire, Status, isRunning, shutdown, players, entities, scores,
          frameID, lastFrameTime, StartedAt, EndedAt, lastActivity,
          playerMutex, entityMutex, loop, caller, now, nextID, applied, ev,
          queues, nextRequest, created, matched, fate, notified,
          serverRunning, serverShutdown, connections, Send, closes, pending,
          reading, writing, otherRoster, stopping, panic,
          inRooms, sweep, starters, loop2, cooldowns, readied>>

settings == <<Mode, FriendlyFire>>
times == <<frameID, lastFrameTime, StartedAt, EndedAt>>
clock == <<now>>
mutexes == <<playerMutex, entityMutex>>
service == <<queues, nextRequest, created, matched, fate, notified>>
server == <<serverRunning, serverShutdown, connections, Send, closes, pending,
            reading, writing, otherRoster, stopping, panic>>
manager == <<inRooms, sweep, starters, loop2, cooldowns, readied>>
room == <<Mode, FriendlyFire, Status, isRunning, shutdown, players, entities, scores,
          frameID, lastFrameTime, StartedAt, EndedAt, lastActivity,
          playerMutex, entityMutex, loop, caller, now, nextID, applied>>

\* ---------------------------------------------------------------- helpers

Roster == DOMAIN players
EntityIDs == DOMAIN entities

Drop(f, x) == [y \in DOMAIN f \ {x} |-> f[y]]
Put(f, x, v) == [y \in DOMAIN f \cup {x} |-> IF y = x THEN v ELSE f[y]]

IdleLoop == [pc |-> "none", rest |-> <<>>, coll |-> 0, owner |-> 0, victim |-> 0]
At(pc) == [IdleLoop EXCEPT !.pc = pc]
\* uuid.New() for a player entity: an id that no entity and no roster entry of
\* the room holds (projectiles take theirs from a counter, above the players').
UsedPlayerIDs == (DOMAIN entities) \cup {players[c].Entity : c \in DOMAIN players}
FreePlayerIDs == (1..MaxPlayerEntities) \ UsedPlayerIDs
NewPlayerID == CHOOSE id \in FreePlayerIDs : \A other \in FreePlayerIDs : id <= other
NewProjectileID == MaxPlayerEntities + nextID

NoCaller == [pc |-> "idle", conn |-> "-", entity |-> 0, pos |-> <<0, 0>>]

PlayerMutexFree == playerMutex.w = "none" /\ playerMutex.r = {}
PlayerMutexReadable == playerMutex.w = "none"
EntityMutexFree == entityMutex = "none"


\* --------------------------------------------------------------- entities
\* models.PlayerEntity and models.ProjectileEntity as one record shape.
\* HitEntities is kept as a set: the code only tests membership.
NewPlayerEntity(pid, team, pos) ==
  [Type |-> "player", Position |-> pos, Velocity |-> <<0, 0>>,
   PlayerID |-> pid, Team |-> team,
   Health |-> PlayerMaxHealth, MaxHealth |-> PlayerMaxHealth, IsAlive |-> TRUE,
   RespawnTime |-> 0, Kills |-> 0, Deaths |-> 0,
   OwnerID |-> 0, Damage |-> 0, LifeTime |-> 0, HitEntities |-> {}]

NewProjectileEntity(owner, pos, vel, damage, lifetime) ==
  [Type |-> "projectile", Position |-> pos, Velocity |-> vel,
   PlayerID |-> 0, Team |-> TeamNone,
   Health |-> 0, MaxHealth |-> 0, IsAlive |-> FALSE,
   RespawnTime |-> 0, Kills |-> 0, Deaths |-> 0,
   OwnerID |-> owner, Damage |-> damage, LifeTime |-> lifetime, HitEntities |-> {}]

IsPlayer(ents, id) == id \in DOMAIN ents /\ ents[id].Type = "player"
IsProjectile(ents, id) == id \in DOMAIN ents /\ ents[id].Type = "projectile"
PlayerEntities == {id \in EntityIDs : entities[id].Type = "player"}
Projectiles == {id \in EntityIDs : entities[id].Type = "projectile"}

IsTeamMode == Mode \in {"team_death_match", "flag_capture"}

\* assignTeam, past its RLock: the smaller team, Red on a tie.
TeamCount(team) == Cardinality({c \in Roster : players[c].Team = team})

assignTeam ==
  IF ~IsTeamMode THEN TeamNone
  ELSE IF TeamCount(TeamRed) <= TeamCount(TeamBlue) THEN TeamRed ELSE TeamBlue

\* ------------------------------------------------------------ matchmaking
\* NewMatchService: no queue holds a request.  A mode without a queue and a
\* mode with an empty one behave alike, so every mode has a queue here.
InitService ==
  /\ queues = [m \in MatchModes |-> <<>>]
  /\ nextRequest = 1
  /\ created = [m \in MatchModes |-> 0]
  /\ matched = [m \in MatchModes |-> <<>>]
  /\ fate = <<>>
  /\ notified = {}

getPlayersNeededForMode(mode) ==
  CASE mode = "death_match" -> 4
    [] mode = "team_death_match" -> 6
    [] mode = "capture_point" -> 8
    [] mode = "flag_capture" -> 6
    [] OTHER -> 4

\* queue[:n] and queue[n:]
SliceTo(queue, n) == SubSeq(queue, 1, n)
\* faulty variants: the tail of the queue is cut instead of its head; the last
\* request of the batch stays queued
SliceFromTheEnd(queue, n) == SubSeq(queue, 1, Len(queue) - n)
SliceFromOneEarly(queue, n) == SubSeq(queue, n, Len(queue))
SliceFrom(queue, n) == SubSeq(queue, n + 1, Len(queue))

\* faulty variant: the request goes to the head of its mode's queue
AddToQueueAtHead(playerID, gameMode) ==
  /\ nextRequest <= MaxRequests
  /\ queues' = [queues EXCEPT ![gameMode] =
                  <<[PlayerID |-> playerID, Request |-> nextRequest]>> \o @]
  /\ nextRequest' = nextRequest + 1
  /\ fate' = Put(fate, nextRequest, [matched |-> 0, withdrawn |-> 0])
  /\ ev' = "-"
  /\ UNCHANGED <<manager, server, room, created, matched, notified>>
\* AddToQueue: the request goes to the tail of its mode's queue
AddToQueue(playerID, gameMode) ==
  /\ nextRequest <= MaxRequests
  /\ queues' = [queues EXCEPT ![gameMode] =
                  Append(@, [PlayerID |-> playerID, Request |-> nextRequest])]
  /\ nextRequest' = nextRequest + 1
  /\ fate' = Put(fate, nextRequest, [matched |-> 0, withdrawn |-> 0])
  /\ ev' = "-"
  /\ UNCHANGED <<manager, server, room, created, matched, notified>>

\* the index of the player's first request in the queue, 0 if there is none
FirstOf(queue, playerID) ==
  IF \E i \in 1..Len(queue) : queue[i].PlayerID = playerID
  THEN CHOOSE i \in 1..Len(queue) :
         /\ queue[i].PlayerID = playerID
         /\ \A j \in 1..(i - 1) : queue[j].PlayerID # playerID
  ELSE 0

\* faulty variant: the requests before the i-th are lost with it
WithoutUpTo(queue, i) == SubSeq(queue, i + 1, Len(queue))
\* append(queue[:i], queue[i+1:]...), i counted from 1
Without(queue, i) == SubSeq(queue, 1, i - 1) \o SubSeq(queue, i + 1, Len(queue))

\* RemoveFromQueue: the player's first request of the mode leaves the queue
RemoveFromQueue(playerID, gameMode) ==
  LET queue == queues[gameMode]
      i == FirstOf(queue, playerID)
  IN  \/ /\ i = 0
         /\ ev' = "RemoveFromQueue: false"
         /\ UNCHANGED <<manager, server, room, service>>
      \/ /\ i > 0
         /\ queues' = [queues EXCEPT ![gameMode] = Without(queue, i)]
         /\ fate' = [fate EXCEPT ![queue[i].Request].withdrawn = @ + 1]
         /\ ev' = "RemoveFromQueue: true"
         /\ UNCHANGED <<manager, server, room, nextRequest, created, matched, notified>>

\* processMatching, one pass over the modes under queuesMutex: a queue that
\* holds enough requests gives its head to one room (CreateRoom cannot fail).
\* The matched players are logged; nothing is sent to them.
Matches(mode) == Len(queues[mode]) >= getPlayersNeededForMode(mode)

processMatching ==
  /\ queues' = [m \in MatchModes |->
                  IF Matches(m) THEN SliceFrom(queues[m], getPlayersNeededForMode(m))
                  ELSE queues[m]]
  /\ matched' = [m \in MatchModes |->
                   IF Matches(m) THEN SliceTo(queues[m], getPlayersNeededForMode(m))
                   ELSE <<>>]
  /\ created' = [m \in MatchModes |-> IF Matches(m) THEN created[m] + 1 ELSE created[m]]
  /\ fate' = [r \in DOMAIN fate |->
                IF \E m \in MatchModes : \E i \in 1..Len(matched'[m]) : matched'[m][i].Request = r
                THEN [fate[r] EXCEPT !.matched = @ + 1]
                ELSE fate[r]]
  /\ ev' = "processMatching"
  /\ UNCHANGED <<manager, server, room, nextRequest, notified>>

\* ---------------------------------------------------------- room registry
\* A room is made by GameServer.CreateRoom alone, which puts it in
\* GameServer.rooms; no skill has been used in it.
InitManager ==
  /\ inRooms = TRUE
  /\ sweep = "idle"
  /\ starters = 0
  /\ loop2 = "none"
  /\ cooldowns = <<>>
  /\ readied = {}

\* IsEmpty reads the roster under playerMutex.RLock; ShouldCleanup then reads
\* lastActivity, Status and EndedAt under no lock.
ShouldCleanupGiven(empty) ==
  IF empty THEN now - lastActivity > IdleThreshold
  ELSE IF Status = "ended" THEN now - EndedAt > EndedGrace
  ELSE FALSE
ShouldCleanup == ShouldCleanupGiven(Roster = {})

\* roomManager runs from GameServer.Start until the shutdown channel is closed
Sweeping == serverRunning /\ ~serverShutdown

\* cleanupRooms comes to the room: ShouldCleanup calls IsEmpty
sweepIsEmpty ==
  /\ Sweeping /\ inRooms /\ sweep = "idle"
  /\ playerMutex.w = "none"
  /\ sweep' = IF Roster = {} THEN "empty" ELSE "occupied"
  /\ ev' = "-"
  /\ UNCHANGED <<room, server, service, inRooms, starters, loop2, cooldowns, readied>>

\* ShouldCleanup returns: a room to keep ends the visit
sweepDecide ==
  /\ sweep \in {"empty", "occupied"}
  /\ IF ShouldCleanupGiven(sweep = "empty")
     THEN sweep' = "remove" /\ ev' = "-"
     ELSE sweep' = "idle" /\ ev' = "cleanupRooms: kept"
  /\ UNCHANGED <<room, server, service, inRooms, starters, loop2, cooldowns, readied>>

\* cleanupRooms stops the room and deletes it from GameServer.rooms
sweepRemove ==
  /\ sweep = "remove"
  /\ IF isRunning
     THEN /\ shutdown' = TRUE /\ isRunning' = FALSE
          /\ Status' = "ended" /\ EndedAt' = now
     ELSE UNCHANGED <<shutdown, isRunning, Status, EndedAt>>
  /\ inRooms' = FALSE
  /\ sweep' = "idle"
  /\ ev' = "cleanupRooms: removed"
  /\ UNCHANGED <<server, service, settings, players, entities, scores, frameID, lastFrameTime,
                 StartedAt, lastActivity, mutexes, loop, caller, clock, nextID, applied,
                 starters, loop2, cooldowns, readied>>

\* time passes
Pass(d) ==
  /\ now + d <= MaxClock
  /\ now' = now + d
  /\ ev' = "-"
  /\ UNCHANGED <<manager, server, service, settings, Status, isRunning, shutdown, players,
                 entities, scores, times, lastActivity, mutexes, loop, caller, nextID, applied>>

\* ------------------------------------------------------- connection layer
\* NewGameServer: no room, no connection, not running.  A PlayerConnection
\* that does not exist yet has an empty, open Send channel.
InitServer ==
  /\ serverRunning = FALSE /\ serverShutdown = FALSE /\ stopping = FALSE
  /\ connections = {}
  /\ Send = [c \in Conns |-> 0]
  /\ closes = [c \in Conns |-> 0]
  /\ pending = [c \in Conns |-> 0]
  /\ reading = {} /\ writing = {}
  /\ otherRoster = {}
  /\ panic = "none"

\* the server after Start, with these connections accepted by handleWSConnection
Connected(cs) ==
  /\ serverRunning = TRUE /\ serverShutdown = FALSE /\ stopping = FALSE
  /\ connections = cs
  /\ Send = [c \in Conns |-> 0]
  /\ closes = [c \in Conns |-> 0]
  /\ pending = [c \in Conns |-> 0]
  /\ reading = cs /\ writing = cs
  /\ otherRoster = {}
  /\ panic = "none"

\* a panic in any goroutine ends the process: nothing recovers it
Alive == panic = "none"

\* PlayerConnection.Room is assigned nowhere (handleJoinRoom is an empty
\* stub): it is nil in every state, and the branches of closeConnection and
\* handleLeaveRoom that test it for a room never run.
Room(c) == "nil"

\* GameServer.Start
ServerStart ==
  /\ Alive
  /\ IF serverRunning
     THEN ev' = "Start: already running" /\ UNCHANGED serverRunning
     ELSE ev' = "-" /\ serverRunning' = TRUE
  /\ UNCHANGED <<manager, room, service, serverShutdown, connections, Send, closes, pending,
                 reading, writing, otherRoster, stopping, panic>>

\* handleWSConnection: a new connection (a fresh uuid) is registered with an
\* empty Send channel, and its two pumps are started.
Accepting == serverRunning /\ ~(serverShutdown /\ ~stopping)
Fresh(c) == c \notin connections /\ c \notin reading /\ c \notin writing /\ closes[c] = 0

handleWSConnection(c) ==
  /\ Alive /\ Accepting /\ Fresh(c)
  /\ connections' = connections \union {c}
  /\ reading' = reading \union {c}
  /\ writing' = writing \union {c}
  /\ ev' = "-"
  /\ UNCHANGED <<manager, room, service, serverRunning, serverShutdown, Send, closes, pending,
                 otherRoster, stopping, panic>>

\* closeConnection, the whole call under connMutex.Lock: a connection that
\* is not registered is left alone; a registered one has its Send channel
\* closed and leaves the registry.  close of a closed channel panics.
closeConnection(c) ==
  IF c \notin connections
  THEN UNCHANGED <<connections, closes, panic>>
  ELSE IF closes[c] >= 1
  THEN /\ panic' = "close of closed channel"
       /\ UNCHANGED <<connections, closes>>
  ELSE /\ closes' = [closes EXCEPT ![c] = @ + 1]
       /\ connections' = connections \ {c}
       /\ UNCHANGED panic

\* readPump ends (the client went away, or the socket was closed under it):
\* its deferred closeConnection runs.
readPumpExit(c) ==
  /\ Alive /\ c \in reading
  /\ reading' = reading \ {c}
  /\ closeConnection(c)
  /\ ev' = "-"
  /\ UNCHANGED <<manager, room, service, serverRunning, serverShutdown, Send, pending,
                 writing, otherRoster, stopping>>

\* handleMessage with a leave_room message: handleLeaveRoom finds no room
handleLeaveRoom(c) ==
  /\ Alive /\ c \in reading /\ Room(c) = "nil"
  /\ ev' = "leave_room: no room"
  /\ UNCHANGED <<manager, room, service, server>>

\* handleMessage for a `ready` (b) or `unready` message of a connection that
\* readPump serves: handlePlayerReady has no body, so the room's
\* PlayerState.Ready is not written.  readied records what the members sent.
handlePlayerReady(c, b) ==
  /\ Alive /\ c \in reading
  /\ readied' = IF b /\ c \in Roster THEN readied \union {c} ELSE readied \ {c}
  /\ ev' = "handlePlayerReady"
  /\ UNCHANGED <<room, service, server, inRooms, sweep, starters, loop2, cooldowns>>

\* writePump takes the buffered messages and writes them to the socket
writePump(c) ==
  /\ Alive /\ c \in writing
  /\ Send[c] > 0
  /\ Send' = [Send EXCEPT ![c] = 0]
  /\ ev' = "-"
  /\ UNCHANGED <<manager, room, service, serverRunning, serverShutdown, connections, closes, pending,
                 reading, writing, otherRoster, stopping, panic>>

\* writePump ends: Send is closed and drained, or a write or a ping failed
writePumpExit(c) ==
  /\ Alive /\ c \in writing
  /\ writing' = writing \ {c}
  /\ ev' = "-"
  /\ UNCHANGED <<manager, room, service, serverRunning, serverShutdown, connections, Send, closes,
                 pending, reading, otherRoster, stopping, panic>>

\* one non-blocking send on a Send channel, as the three senders do it
Full(c) == Send[c] >= SendCapacity

\* sendMessage: select with default; a full channel closes the connection
sendMessage(c) ==
  /\ Alive /\ c \in reading
  /\ IF closes[c] >= 1
     THEN /\ panic' = "send on closed channel"
          /\ UNCHANGED <<connections, Send, closes>>
     ELSE IF ~Full(c)
     THEN /\ Send' = [Send EXCEPT ![c] = @ + 1]
          /\ UNCHANGED <<connections, closes, panic>>
     ELSE /\ closeConnection(c)
          /\ UNCHANGED Send
  /\ ev' = "sendMessage"
  /\ UNCHANGED <<manager, room, service, serverRunning, serverShutdown, pending,
                 reading, writing, otherRoster, stopping>>

\* broadcastMessage, under connMutex.RLock: every registered connection is
\* sent the message; a full channel gets a closeConnection goroutine.
broadcastMessage ==
  /\ Alive
  /\ \A c \in connections : Full(c) => pending[c] < MaxPending
  /\ IF \E c \in connections : closes[c] >= 1
     THEN /\ panic' = "send on closed channel"
          /\ UNCHANGED <<Send, pending>>
     ELSE /\ Send' = [c \in Conns |->
                        IF c \in connections /\ ~Full(c) THEN Send[c] + 1 ELSE Send[c]]
          /\ pending' = [c \in Conns |->
                           IF c \in connections /\ Full(c) THEN pending[c] + 1 ELSE pending[c]]
          /\ UNCHANGED panic
  /\ ev' = "broadcastMessage"
  /\ UNCHANGED <<manager, room, service, serverRunning, serverShutdown, connections, closes,
                 reading, writing, otherRoster, stopping>>

\* a closeConnection goroutine of broadcastMessage runs
closeConnectionLater(c) ==
  /\ Alive /\ pending[c] > 0
  /\ pending' = [pending EXCEPT ![c] = @ - 1]
  /\ closeConnection(c)
  /\ ev' = "-"
  /\ UNCHANGED <<manager, room, service, serverRunning, serverShutdown, Send,
                 reading, writing, otherRoster, stopping>>

\* GameServer.Stop up to httpServer.Shutdown: the shutdown channel is
\* closed, every room is stopped, and the Send channel of every registered
\* connection is closed; the registry keeps its entries.
ServerStopBegin ==
  /\ Alive /\ ~stopping
  /\ IF ~serverRunning
     THEN /\ ev' = "Stop: server not running"
          /\ UNCHANGED <<room, server>>
     ELSE IF serverShutdown \/ \E c \in connections : closes[c] >= 1
     THEN /\ panic' = IF serverShutdown THEN "close of closed channel: shutdown"
                      ELSE "close of closed channel"
          /\ ev' = "-"
          /\ UNCHANGED <<room, serverRunning, serverShutdown, connections, Send, closes,
                         pending, reading, writing, otherRoster, stopping>>
     ELSE /\ serverShutdown' = TRUE
          /\ IF inRooms /\ isRunning
             THEN /\ shutdown' = TRUE /\ isRunning' = FALSE
                  /\ Status' = "ended" /\ EndedAt' = now
             ELSE UNCHANGED <<shutdown, isRunning, Status, EndedAt>>
          /\ closes' = [c \in Conns |-> IF c \in connections THEN closes[c] + 1 ELSE closes[c]]
          /\ stopping' = TRUE
          /\ ev' = "-"
          /\ UNCHANGED <<settings, players, entities, scores, frameID, lastFrameTime, StartedAt,
                         lastActivity, mutexes, loop, caller, clock, nextID, applied,
                         serverRunning, connections, Send, pending, reading, writing,
                         otherRoster, panic>>
  /\ UNCHANGED <<manager, service>>

\* GameServer.Stop from httpServer.Shutdown on: the listener is closed
\* (the upgraded connections are not), and isRunning is reset.
ServerStopEnd ==
  /\ Alive /\ stopping
  /\ stopping' = FALSE
  /\ serverRunning' = FALSE
  /\ ev' = "-"
  /\ UNCHANGED <<manager, room, service, serverShutdown, connections, Send, closes, pending,
                 reading, writing, otherRoster, panic>>

\* AddPlayer and RemovePlayer of the second room, which is Waiting: of that
\* room only the roster is kept.
AddPlayerOther(c) ==
  /\ Alive
  /\ IF Cardinality(otherRoster) >= MaxPlayers
     THEN ev' = "AddPlayer: full" /\ UNCHANGED otherRoster
     ELSE ev' = "-" /\ otherRoster' = otherRoster \union {c}
  /\ UNCHANGED <<manager, room, service, serverRunning, serverShutdown, connections, Send, closes,
                 pending, reading, writing, stopping, panic>>

RemovePlayerOther(c) ==
  /\ Alive
  /\ IF c \notin otherRoster
     THEN ev' = "RemovePlayer: absent" /\ UNCHANGED otherRoster
     ELSE ev' = "-" /\ otherRoster' = otherRoster \ {c}
  /\ UNCHANGED <<manager, room, service, serverRunning, serverShutdown, connections, Send, closes,
                 pending, reading, writing, stopping, panic>>

\* ------------------------------------------------------------- lifecycle
\* NewRoom: Waiting, not running, empty maps, default rules.
InitRoom ==
  /\ FriendlyFire = FALSE
  /\ Status = "waiting" /\ isRunning = FALSE /\ shutdown = FALSE
  /\ players = <<>> /\ entities = <<>> /\ scores = <<>>
  /\ frameID = 0 /\ lastFrameTime = 0 /\ StartedAt = 0 /\ EndedAt = 0 /\ lastActivity = 0
  /\ playerMutex = [w |-> "none", r |-> {}] /\ entityMutex = "none"
  /\ loop = IdleLoop /\ caller = NoCaller
  /\ now = 0 /\ nextID = 1
  /\ applied = <<>>
  /\ ev = "-"
  /\ InitService
  /\ InitServer
  /\ InitManager

Init ==
  /\ Mode \in {"death_match", "team_death_match"}
  /\ InitRoom

\* Room.Start: refuses a running room, else marks it running and spawns gameLoop.
\* A room is started once (GameServer.CreateRoom): no second loop is spawned.
Start ==
  \/ /\ isRunning
     /\ ev' = "Start: running"
     /\ UNCHANGED <<manager, server, service, settings, Status, isRunning, shutdown, players, entities, scores, times,
                    lastActivity, mutexes, loop, caller, clock, nextID, applied>>
  \/ /\ ~isRunning /\ loop.pc = "none"
     /\ isRunning' = TRUE
     /\ lastActivity' = now
     /\ loop' = At("select")
     /\ ev' = "-"
     /\ UNCHANGED <<manager, server, service, settings, Status, shutdown, players, entities, scores, times,
                    mutexes, caller, clock, nextID, applied>>

\* Room.Start takes no lock, so that calls of it can overlap: the test of
\* isRunning is one step, and the setting of it with the spawning of gameLoop
\* another.  Two gameLoop goroutines are kept track of.
StartTest ==
  /\ IF isRunning
     THEN ev' = "Start: running" /\ UNCHANGED starters
     ELSE ev' = "-" /\ starters < MaxStarters /\ starters' = starters + 1
  /\ UNCHANGED <<room, server, service, inRooms, sweep, loop2, cooldowns, readied>>

LoopExists == loop.pc \notin {"none", "done"}
Loop2Exists == loop2 \notin {"none", "done"}

StartSpawn ==
  /\ starters > 0
  /\ ~LoopExists \/ ~Loop2Exists
  /\ starters' = starters - 1
  /\ isRunning' = TRUE
  /\ lastActivity' = now
  /\ IF ~LoopExists
     THEN loop' = At("select") /\ UNCHANGED loop2
     ELSE loop2' = "select" /\ UNCHANGED loop
  /\ ev' = "-"
  /\ UNCHANGED <<server, service, settings, Status, shutdown, players, entities, scores, times,
                 mutexes, caller, clock, nextID, applied, inRooms, sweep, cooldowns, readied>>

\* the second gameLoop at its select, in a room that is not Playing
LoopSelect2 ==
  /\ loop2 = "select"
  /\ \/ Status = "waiting" /\ loop2' = "checkGameStart"
     \/ shutdown /\ loop2' = "done"
  /\ ev' = "-"
  /\ UNCHANGED <<room, server, service, inRooms, sweep, starters, cooldowns, readied>>

\* Room.Stop: takes no lock; a room that is not running is left as it is.
Stop ==
  \/ /\ ~isRunning
     /\ ev' = "Stop: not running"
     /\ UNCHANGED <<manager, server, service, settings, Status, isRunning, shutdown, players, entities, scores, times,
                    lastActivity, mutexes, loop, caller, clock, nextID, applied>>
  \/ /\ isRunning
     /\ shutdown' = TRUE
     /\ isRunning' = FALSE
     /\ Status' = "ended"
     /\ EndedAt' = now
     /\ ev' = "-"
     /\ UNCHANGED <<manager, server, service, settings, players, entities, scores, frameID, lastFrameTime, StartedAt,
                    lastActivity, mutexes, loop, caller, clock, nextID, applied>>

\* ---------------------------------------------------------------- roster
\* faulty variants of the two tests of AddPlayer: a capacity test that is off
\* by one, and a status test that closes the room only once it has ended
AddPlayerFullOffByOne == Cardinality(Roster) > MaxPlayers
AddPlayerFull == Cardinality(Roster) >= MaxPlayers
AddPlayerClosedWhenEnded == Status = "ended"
AddPlayerClosed == Status # "waiting"

\* AddPlayer up to r.players[conn.ID] = playerState (holding playerMutex).
\* In a team mode assignTeam calls RLock on the mutex this goroutine holds
\* for writing, and never returns.
AddPlayerBegin(c, pos) ==
  /\ caller.pc = "idle" /\ PlayerMutexFree
  /\ \/ /\ AddPlayerFull
        /\ ev' = "AddPlayer: full"
        /\ UNCHANGED <<players, playerMutex, caller, nextID>>
     \/ /\ ~AddPlayerFull /\ AddPlayerClosed
        /\ ev' = "AddPlayer: closed"
        /\ UNCHANGED <<players, playerMutex, caller, nextID>>
     \/ /\ ~AddPlayerFull /\ ~AddPlayerClosed /\ IsTeamMode
        /\ playerMutex' = [playerMutex EXCEPT !.w = "caller"]
        /\ caller' = [pc |-> "assignTeam", conn |-> c, entity |-> 0, pos |-> <<0, 0>>]
        /\ ev' = "-"
        /\ UNCHANGED <<players, nextID>>
     \/ /\ ~AddPlayerFull /\ ~AddPlayerClosed /\ ~IsTeamMode
        /\ FreePlayerIDs # {}
        /\ playerMutex' = [playerMutex EXCEPT !.w = "caller"]
        /\ players' = Put(players, c, [Entity |-> NewPlayerID, Ready |-> FALSE,
                                       PlayerID |-> PlayerIDOf[c], Team |-> assignTeam])
        /\ caller' = [pc |-> "add", conn |-> c, entity |-> NewPlayerID, pos |-> pos]
        /\ UNCHANGED nextID
        /\ ev' = "-"
  /\ UNCHANGED <<manager, server, service, settings, Status, isRunning, shutdown, entities, scores, times,
                 lastActivity, entityMutex, loop, clock, applied>>

\* AddPlayer from entityMutex.Lock() to the return.
AddPlayerFinish ==
  /\ caller.pc = "add" /\ EntityMutexFree
  /\ entities' = Put(entities, caller.entity,
                     NewPlayerEntity(PlayerIDOf[caller.conn],
                                     players[caller.conn].Team, caller.pos))
  /\ lastActivity' = now
  /\ playerMutex' = [playerMutex EXCEPT !.w = "none"]
  /\ caller' = NoCaller
  /\ ev' = "-"
  /\ UNCHANGED <<manager, server, service, settings, Status, isRunning, shutdown, players, scores, times,
                 entityMutex, loop, clock, nextID, applied>>

\* RemovePlayer up to the lookup: an absent connection returns at once.
RemovePlayerBegin(c) ==
  /\ caller.pc = "idle" /\ PlayerMutexFree
  /\ \/ /\ c \notin Roster
        /\ ev' = "RemovePlayer: absent"
        /\ UNCHANGED <<playerMutex, caller>>
     \/ /\ c \in Roster
        /\ playerMutex' = [playerMutex EXCEPT !.w = "caller"]
        /\ caller' = [pc |-> "remove", conn |-> c, entity |-> players[c].Entity, pos |-> <<0, 0>>]
        /\ ev' = "-"
  /\ UNCHANGED <<manager, server, service, settings, Status, isRunning, shutdown, players, entities, scores, times,
                 lastActivity, entityMutex, loop, clock, nextID, applied>>

\* faulty variant: a room whose last player leaves is ended
RemovePlayerEndingEmpty ==
  /\ caller.pc = "remove" /\ EntityMutexFree
  /\ entities' = Drop(entities, caller.entity)
  /\ players' = Drop(players, caller.conn)
  /\ lastActivity' = now
  /\ Status' = IF Roster = {caller.conn} THEN "ended" ELSE Status
  /\ playerMutex' = [playerMutex EXCEPT !.w = "none"]
  /\ caller' = NoCaller
  /\ ev' = "-"
  /\ UNCHANGED <<manager, server, service, settings, isRunning, shutdown, scores, times,
                 entityMutex, loop, clock, nextID, applied>>
\* RemovePlayer from entityMutex.Lock() to the return.
RemovePlayerFinish ==
  /\ caller.pc = "remove" /\ EntityMutexFree
  /\ entities' = Drop(entities, caller.entity)
  /\ players' = Drop(players, caller.conn)
  /\ lastActivity' = now
  /\ playerMutex' = [playerMutex EXCEPT !.w = "none"]
  /\ caller' = NoCaller
  /\ ev' = "-"
  /\ UNCHANGED <<manager, server, service, settings, Status, isRunning, shutdown, scores, times,
                 entityMutex, loop, clock, nextID, applied>>

\* PlayerState.Ready, written for a `ready` / `unready` message.
SetReady(c, b) ==
  /\ Status = "waiting"
  /\ c \in Roster /\ players[c].Ready # b
  /\ players' = [players EXCEPT ![c].Ready = b]
  /\ ev' = "-"
  /\ UNCHANGED <<manager, server, service, settings, Status, isRunning, shutdown, entities, scores, times,
                 lastActivity, mutexes, loop, caller, clock, nextID, applied>>

\* ----------------------------------------------------------------- combat
\* CreateProjectile: spawned at the owner's position, registered under entityMutex.
\* No tick reads the entity map of a room that is not Playing: projectiles are
\* created while it is.
CreateProjectile(owner, dir, damage, speed, lifetime) ==
  /\ Status = "playing"
  /\ owner \in PlayerEntities
  /\ nextID <= MaxProjectiles
  /\ EntityMutexFree
  /\ entities' = Put(entities, NewProjectileID,
                     NewProjectileEntity(owner, entities[owner].Position,
                                         <<dir[1] * speed, dir[2] * speed>>, damage, lifetime))
  /\ nextID' = nextID + 1
  /\ ev' = "-"
  /\ UNCHANGED <<manager, server, service, settings, Status, isRunning, shutdown, players, scores, times,
                 lastActivity, mutexes, loop, caller, clock, applied>>

\* ----------------------------------------------------------------- skills
\* cos and sin of 15 degrees, in thousandths
Cos15 == 966
Sin15 == 259

\* rotateVector by i * 15 degrees, i in -1..1, on a direction in thousandths
rotateVector(v, i) ==
  LET cos == IF i = 0 THEN 1000 ELSE Cos15
      sin == i * Sin15
  IN  <<(v[1] * cos - v[2] * sin) \div 1000, (v[1] * sin + v[2] * cos) \div 1000>>

\* UseSkill's switch: damage, speed, lifetime (ms) and cooldown (ms) of a
\* skill, and the directions of its projectiles
SkillDamage(s) == IF s = 1 THEN 10 ELSE IF s = 2 THEN 8 ELSE 15
SkillSpeed(s) == IF s = 1 THEN 500 ELSE IF s = 2 THEN 450 ELSE 400
SkillLifeTime(s) == IF s = 1 THEN 2000 ELSE IF s = 2 THEN 1500 ELSE 3000
SkillCooldown(s) == IF s = 1 THEN 500 ELSE IF s = 2 THEN 3000 ELSE 5000
\* faulty variant: the spread shot fires two projectiles
SkillShotsTwo(s, dir) ==
  IF s = 2 THEN <<rotateVector(dir, -1), rotateVector(dir, 1)>>
  ELSE IF s \in {1, 3} THEN <<dir>>
  ELSE <<>>
SkillShots(s, dir) ==
  IF s = 2 THEN <<rotateVector(dir, -1), rotateVector(dir, 0), rotateVector(dir, 1)>>
  ELSE IF s \in {1, 3} THEN <<dir>>
  ELSE <<>>

\* CreateProjectile's entity for a direction in thousandths
SkillProjectile(p, s, d) ==
  NewProjectileEntity(p, entities[p].Position,
                      <<(d[1] * SkillSpeed(s)) \div 1000, (d[2] * SkillSpeed(s)) \div 1000>>,
                      SkillDamage(s), SkillLifeTime(s))

\* faulty variant: an entry of the cooldown map does not hold the skill back
OnCooldownNever(p, s) == FALSE
\* UseSkill's test of player.SkillCooldowns[skillID]
OnCooldown(p, s) == <<p, s>> \in DOMAIN cooldowns /\ cooldowns[<<p, s>>] > 0

\* UseSkill for the player entity p.  The CreateProjectile calls of one use
\* are taken together, when entityMutex is free.
UseSkill(p, s, dir) ==
  /\ p \in PlayerEntities
  /\ IF OnCooldown(p, s)
     THEN /\ ev' = "UseSkill: on cooldown"
          /\ UNCHANGED <<entities, nextID, cooldowns>>
     ELSE LET shots == SkillShots(s, dir)
              ids == [i \in 1..Len(shots) |-> MaxPlayerEntities + nextID + i - 1]
          IN  /\ EntityMutexFree
              /\ nextID + Len(shots) - 1 <= MaxSkillProjectiles
              /\ entities' =
                   [id \in DOMAIN entities \cup {ids[i] : i \in 1..Len(shots)} |->
                      IF \E i \in 1..Len(shots) : ids[i] = id
                      THEN SkillProjectile(p, s, shots[CHOOSE i \in 1..Len(shots) : ids[i] = id])
                      ELSE entities[id]]
              /\ nextID' = nextID + Len(shots)
              /\ cooldowns' = IF shots = <<>> THEN cooldowns
                              ELSE Put(cooldowns, <<p, s>>, SkillCooldown(s))
              /\ ev' = IF shots = <<>> THEN "UseSkill: unknown skill" ELSE "UseSkill"
  /\ UNCHANGED <<server, service, settings, Status, isRunning, shutdown, players, scores, times,
                 lastActivity, mutexes, loop, caller, clock, applied,
                 inRooms, sweep, starters, loop2, readied>>

\* faulty variant: deltaTime is cut to whole seconds, as the respawn countdown's is
AdvanceByWholeSeconds(pos, vel, dt) ==
  <<pos[1] + vel[1] * (dt \div 1000), pos[2] + vel[2] * (dt \div 1000)>>
\* position + velocity * deltaTime (deltaTime in ms, velocity per second)
Advance(pos, vel, dt) == <<pos[1] + (vel[1] * dt) \div 1000, pos[2] + (vel[2] * dt) \div 1000>>

\* int(deltaTime): whole seconds
WholeSeconds(dt) == dt \div 1000

\* the players updateEntities brings back to life in this tick
Respawning(dt) ==
  {id \in PlayerEntities :
     ~entities[id].IsAlive /\ entities[id].RespawnTime - WholeSeconds(dt) <= 0}

\* faulty variant: no projectile expires
ExpiringNever(dt) == {}
\* the projectiles updateEntities deletes in this tick
Expiring(dt) == {id \in Projectiles : entities[id].LifeTime - dt <= 0}

\* updateEntities, one entity; sp is getRandomSpawnPosition() for a respawn
UpdateEntity(e, dt, sp) ==
  IF e.Type = "player"
  THEN IF e.IsAlive
       THEN [e EXCEPT !.Position = Advance(e.Position, e.Velocity, dt)]
       ELSE IF e.RespawnTime - WholeSeconds(dt) <= 0
            THEN [e EXCEPT !.RespawnTime = e.RespawnTime - WholeSeconds(dt),
                           !.IsAlive = TRUE, !.Health = e.MaxHealth,
                           !.Position = sp, !.Velocity = <<0, 0>>]
            ELSE [e EXCEPT !.RespawnTime = e.RespawnTime - WholeSeconds(dt)]
  ELSE [e EXCEPT !.Position = Advance(e.Position, e.Velocity, dt),
                 !.LifeTime = e.LifeTime - dt]

\* updateEntities, the cooldown loop of an alive player: an entry above zero
\* loses deltaTime and is deleted when that leaves it at zero or below
Cooling(k) ==
  /\ IsPlayer(entities, k[1]) /\ entities[k[1]].IsAlive
  /\ cooldowns[k] > 0

Cooled(dt) ==
  [k \in {k \in DOMAIN cooldowns : ~(Cooling(k) /\ cooldowns[k] - dt <= 0)} |->
     IF Cooling(k) THEN cooldowns[k] - dt ELSE cooldowns[k]]

updateEntities(dt, spawn) ==
  [id \in EntityIDs \ Expiring(dt) |->
     UpdateEntity(entities[id], dt, IF id \in DOMAIN spawn THEN spawn[id] ELSE <<0, 0>>)]

\* faulty variant: the FriendlyFire setting is not consulted
FriendlyWhateverTheSetting(ents, p, q) ==
  LET o == ents[p].OwnerID
  IN  /\ IsPlayer(ents, o)
      /\ ents[o].Team = ents[q].Team
      /\ ents[o].Team # TeamNone
\* detectCollisions, lines 61-106: does projectile p hit player q now?
Friendly(ents, p, q) ==
  LET o == ents[p].OwnerID
  IN  /\ IsPlayer(ents, o)
      /\ ents[o].Team = ents[q].Team
      /\ ents[o].Team # TeamNone
      /\ ~FriendlyFire

Intersects(ents, p, q) ==
  LET dx == ents[p].Position[1] - ents[q].Position[1]
      dy == ents[p].Position[2] - ents[q].Position[2]
      reach == projectileRadius + playerRadius
  IN  dx * dx + dy * dy < reach * reach

\* faulty variant: a projectile whose owner is not in the map hits nobody
CanHitWithOwner(ents, p, q) ==
  /\ IsProjectile(ents, p) /\ IsPlayer(ents, q)
  /\ q \notin ents[p].HitEntities
  /\ IsPlayer(ents, ents[p].OwnerID)
  /\ ~Friendly(ents, p, q)
  /\ Intersects(ents, p, q)
\* faulty variant: the hit-set is not consulted
CanHitAgain(ents, p, q) ==
  /\ IsProjectile(ents, p) /\ IsPlayer(ents, q)
  /\ ~Friendly(ents, p, q)
  /\ Intersects(ents, p, q)
\* what of lines 61-106 cannot change while detectCollisions holds entityMutex:
\* the types, the hit-set before this pair's turn, the teams, the positions
CanHit(ents, p, q) ==
  /\ IsProjectile(ents, p) /\ IsPlayer(ents, q)
  /\ q \notin ents[p].HitEntities
  /\ ~Friendly(ents, p, q)
  /\ Intersects(ents, p, q)

\* faulty variant: the health is not floored at 0
ApplyDamageUnclamped(e, damage) ==
  IF e.Health - damage <= 0
  THEN [e EXCEPT !.Health = e.Health - damage, !.IsAlive = FALSE, !.RespawnTime = RespawnDelay]
  ELSE [e EXCEPT !.Health = e.Health - damage]
\* handleCollision, lines 131-144: the hit-set, the damage and the death
ApplyDamage(e, damage) ==
  IF e.Health - damage <= 0
  THEN [e EXCEPT !.Health = 0, !.IsAlive = FALSE, !.RespawnTime = RespawnDelay]
  ELSE [e EXCEPT !.Health = e.Health - damage]

handleCollision(ents, p, q) ==
  [ents EXCEPT ![p].HitEntities = @ \cup {q},
               ![q] = ApplyDamage(@, ents[p].Damage)]

Count(f, k) == IF k \in DOMAIN f THEN f[k] ELSE 0

\* the orders in which ranging over the entity map can fill the snapshot
Orders(S) ==
  {o \in [1..Cardinality(S) -> S] : \A x, y \in 1..Cardinality(S) : o[x] = o[y] => x = y}

\* The pairs (i, j), i < j, of the snapshot in the order of the two loops, as
\* <<projectile, player>>; only those that CanHit are kept.
RECURSIVE PairsFrom(_, _, _, _)
PairsFrom(ents, order, i, j) ==
  IF i >= Len(order) THEN <<>>
  ELSE IF j > Len(order) THEN PairsFrom(ents, order, i + 1, i + 2)
  ELSE LET a == order[i]
           b == order[j]
       IN  (IF CanHit(ents, a, b) THEN << <<a, b>> >>
            ELSE IF CanHit(ents, b, a) THEN << <<b, a>> >>
            ELSE <<>>) \o PairsFrom(ents, order, i, j + 1)

Snapshots(ents) == {PairsFrom(ents, order, 1, 2) : order \in Orders(DOMAIN ents)}

\* The pair loop of detectCollisions over the pairs still to come, up to the
\* first lethal hit whose owner is a player entity of the map: there
\* handleCollision goes for playerMutex, and the loop stops with stop = TRUE.
RECURSIVE DetectFrom(_, _, _, _)
DetectFrom(ents, appl, rest, coll) ==
  IF rest = <<>>
  THEN [ents |-> ents, appl |-> appl, rest |-> rest, coll |-> coll,
        stop |-> FALSE, owner |-> 0, victim |-> 0]
  ELSE LET p == Head(rest)[1]
           q == Head(rest)[2]
       IN  IF ents[q].IsAlive
           THEN LET after == handleCollision(ents, p, q)
                    appl2 == Put(appl, Head(rest), Count(appl, Head(rest)) + 1)
                    owner == ents[p].OwnerID
                IN  IF ~after[q].IsAlive /\ IsPlayer(ents, owner)
                    THEN [ents |-> after, appl |-> appl2, rest |-> Tail(rest),
                          coll |-> coll + 1, stop |-> TRUE, owner |-> owner, victim |-> q]
                    ELSE DetectFrom(after, appl2, Tail(rest), coll + 1)
           ELSE DetectFrom(ents, appl, Tail(rest), coll)

\* -------------------------------------------------------------- game loop
\* gameLoop's select: the ticker fires and the loop reads Status, or the closed
\* shutdown channel is received from.  The clock is read by update alone, so it
\* moves with the ticks that lead to one: dt is the time since the last frame.
\* A tick that finds the room Ended does nothing.
LoopSelect(dt) ==
  /\ loop.pc = "select"
  /\ \/ /\ Status = "playing" /\ frameID < MaxFrames
        /\ now' = now + dt
        /\ loop' = At("update")
     \/ /\ Status = "waiting"
        /\ loop' = At("checkGameStart")
        /\ UNCHANGED now
     \/ /\ shutdown
        /\ loop' = At("done")
        /\ UNCHANGED now
  /\ ev' = "-"
  /\ UNCHANGED <<manager, server, service, settings, Status, isRunning, shutdown, players, entities, scores, times,
                 lastActivity, mutexes, caller, nextID, applied>>

\* faulty variant: one ready player is enough
SomeReady == \E c \in Roster : players[c].Ready
AllReady == \A c \in Roster : players[c].Ready
CanStart == Cardinality(Roster) >= MinPlayers /\ AllReady

\* checkGameStart under playerMutex.RLock, with startGame
checkGameStart ==
  /\ loop.pc = "checkGameStart"
  /\ PlayerMutexReadable
  /\ IF CanStart
     THEN /\ Status' = "playing"
          /\ StartedAt' = now
          /\ lastFrameTime' = now
          /\ frameID' = 0
          /\ ev' = "-"
     ELSE /\ ev' = "-"
          /\ UNCHANGED <<Status, StartedAt, lastFrameTime, frameID>>
  /\ loop' = At("select")
  /\ UNCHANGED <<manager, server, service, settings, isRunning, shutdown, players, entities, scores, EndedAt,
                 lastActivity, mutexes, caller, clock, nextID, applied>>

\* checkGameStart in the second gameLoop
checkGameStart2 ==
  /\ loop2 = "checkGameStart"
  /\ PlayerMutexReadable
  /\ IF CanStart
     THEN /\ Status' = "playing"
          /\ StartedAt' = now
          /\ lastFrameTime' = now
          /\ frameID' = 0
     ELSE UNCHANGED <<Status, StartedAt, lastFrameTime, frameID>>
  /\ loop2' = "select"
  /\ ev' = "-"
  /\ UNCHANGED <<server, service, settings, isRunning, shutdown, players, entities, scores, EndedAt,
                 lastActivity, mutexes, loop, caller, clock, nextID, applied,
                 inRooms, sweep, starters, cooldowns, readied>>

\* update: deltaTime, frameID, and updateEntities under entityMutex
update ==
  /\ loop.pc = "update"
  /\ EntityMutexFree
  /\ LET dt == now - lastFrameTime
     IN  \E spawn \in [Respawning(dt) -> SpawnPoints] :
            entities' = updateEntities(dt, spawn)
  /\ cooldowns' = Cooled(now - lastFrameTime)
  /\ lastFrameTime' = now
  /\ frameID' = frameID + 1
  /\ loop' = At("detectCollisions")
  /\ ev' = "-"
  /\ UNCHANGED <<server, service, settings, Status, isRunning, shutdown, players, scores, StartedAt, EndedAt,
                 lastActivity, mutexes, caller, clock, nextID, applied,
                 inRooms, sweep, starters, loop2, readied>>

\* where the pair loop goes after DetectFrom returned r
AfterDetect(r) ==
  /\ entities' = r.ents
  /\ applied' = r.appl
  /\ IF r.stop
     THEN /\ loop' = [pc |-> "creditKill", rest |-> r.rest, coll |-> r.coll,
                      owner |-> r.owner, victim |-> r.victim]
          /\ entityMutex' = "loop"
     ELSE IF r.coll > 0
     THEN /\ loop' = At("broadcastCollisions")
          /\ entityMutex' = "loop"
     ELSE /\ loop' = At("checkGameEnd")
          /\ entityMutex' = "none"

\* detectCollisions: entityMutex.Lock, the snapshot, and the pair loop
detectCollisions ==
  /\ loop.pc = "detectCollisions"
  /\ EntityMutexFree
  /\ \E pairs \in Snapshots(entities) :
        AfterDetect(DetectFrom(entities, applied, pairs, 0))
  /\ ev' = "-"
  /\ UNCHANGED <<manager, server, service, settings, Status, isRunning, shutdown, players, scores, times,
                 lastActivity, playerMutex, caller, clock, nextID>>

\* the roster entry whose entity has this id, if any
InRoster(id) == \E c \in Roster : players[c].Entity = id

\* handleCollision, lines 152-161: playerMutex.Lock, the owner's kill and score
creditKill ==
  /\ loop.pc = "creditKill"
  /\ PlayerMutexFree
  /\ IF InRoster(loop.owner)
     THEN /\ entities' = [entities EXCEPT ![loop.owner].Kills = @ + 1]
          /\ scores' = Put(scores, entities[loop.owner].PlayerID,
                           Count(scores, entities[loop.owner].PlayerID) + 1)
     ELSE UNCHANGED <<entities, scores>>
  /\ loop' = [loop EXCEPT !.pc = "creditDeath"]
  /\ ev' = "-"
  /\ UNCHANGED <<manager, server, service, settings, Status, isRunning, shutdown, players, times,
                 lastActivity, mutexes, caller, clock, nextID, applied>>

\* handleCollision, lines 163-174: playerMutex.Lock again, the victim's death;
\* then the pair loop goes on.
creditDeath ==
  /\ loop.pc = "creditDeath"
  /\ PlayerMutexFree
  /\ LET ents == IF InRoster(loop.victim)
                 THEN [entities EXCEPT ![loop.victim].Deaths = @ + 1]
                 ELSE entities
     IN  AfterDetect(DetectFrom(ents, applied, loop.rest, loop.coll))
  /\ ev' = "-"
  /\ UNCHANGED <<manager, server, service, settings, Status, isRunning, shutdown, players, scores, times,
                 lastActivity, playerMutex, caller, clock, nextID>>

\* broadcastCollisions: the frame goes to the roster under playerMutex.RLock,
\* one non-blocking send per member, and a full channel is skipped;
\* detectCollisions then returns and releases entityMutex.
\* faulty variant: a plain send, which waits for room in the channel
broadcastCollisionsBlocking ==
  /\ Alive
  /\ loop.pc = "broadcastCollisions"
  /\ PlayerMutexReadable
  /\ \A c \in Roster : ~Full(c)
  /\ IF \E c \in Roster : closes[c] >= 1
     THEN /\ panic' = "send on closed channel"
          /\ UNCHANGED <<Send, entityMutex, loop>>
     ELSE /\ Send' = [c \in Conns |-> IF c \in Roster THEN Send[c] + 1 ELSE Send[c]]
          /\ entityMutex' = "none"
          /\ loop' = At("checkGameEnd")
          /\ UNCHANGED panic
  /\ ev' = "-"
  /\ UNCHANGED <<manager, service, settings, Status, isRunning, shutdown, players, entities, scores, times,
                 lastActivity, playerMutex, caller, clock, nextID, applied,
                 serverRunning, serverShutdown, connections, closes, pending,
                 reading, writing, otherRoster, stopping>>
broadcastCollisions ==
  /\ Alive
  /\ loop.pc = "broadcastCollisions"
  /\ PlayerMutexReadable
  /\ IF \E c \in Roster : closes[c] >= 1
     THEN /\ panic' = "send on closed channel"
          /\ UNCHANGED <<Send, entityMutex, loop>>
     ELSE /\ Send' = [c \in Conns |->
                        IF c \in Roster /\ ~Full(c) THEN Send[c] + 1 ELSE Send[c]]
          /\ entityMutex' = "none"
          /\ loop' = At("checkGameEnd")
          /\ UNCHANGED panic
  /\ ev' = IF \E c \in Roster : Full(c) THEN "broadcastCollisions: skipped" ELSE "-"
  /\ UNCHANGED <<manager, service, settings, Status, isRunning, shutdown, players, entities, scores, times,
                 lastActivity, playerMutex, caller, clock, nextID, applied,
                 serverRunning, serverShutdown, connections, closes, pending,
                 reading, writing, otherRoster, stopping>>

TimeIsUp == now - StartedAt >= TimeLimit * 1000
\* faulty variant: the limit has to be passed
ScorePassed == \E p \in DOMAIN scores : scores[p] > ScoreLimit
ScoreReached == \E p \in DOMAIN scores : scores[p] >= ScoreLimit
GameOver == TimeIsUp \/ ScoreReached

\* checkGameEnd with endGame; broadcastGameState is empty
checkGameEnd ==
  /\ loop.pc = "checkGameEnd"
  /\ IF GameOver
     THEN /\ Status' = "ended"
          /\ EndedAt' = now
          /\ ev' = "-"
     ELSE /\ ev' = "-"
          /\ UNCHANGED <<Status, EndedAt>>
  /\ loop' = At("select")
  /\ UNCHANGED <<manager, server, service, settings, isRunning, shutdown, players, entities, scores, frameID,
                 lastFrameTime, StartedAt, lastActivity, mutexes, caller, clock, nextID, applied>>

\* ----------------------------------------------------------- specification
\* The room from NewRoom on: its lifecycle, its roster and its tick loop.  No
\* projectile exists here, so no spawn position is ever read, and a tick's
\* length counts towards the time limit alone: one of each stands for all.
Next ==
  \/ Start
  \/ Stop
  \/ \E c \in Conns : AddPlayerBegin(c, <<0, 0>>)
  \/ AddPlayerFinish
  \/ \E c \in Conns : RemovePlayerBegin(c)
  \/ RemovePlayerFinish
  \/ \E c \in Conns, b \in BOOLEAN : SetReady(c, b)
  \/ \E dt \in LobbyDeltaTimes : LoopSelect(dt)
  \/ checkGameStart
  \/ update
  \/ detectCollisions
  \/ checkGameEnd

Spec == Init /\ [][Next]_vars

\* A game in progress: the room is Playing, its loop between two ticks, with
\* two player entities, `first` and `second`.  `roster` is the member
\* connections; with one member alone, entity 2 is a player entity whose
\* roster entry is gone (AddPlayer of c1 twice overwrote it).
BattlePlayer(c, id, team) ==
  [Entity |-> id, Ready |-> TRUE, PlayerID |-> PlayerIDOf[c], Team |-> team]

InGameRoom(roster, first, second) ==
  /\ players = [c \in roster |-> IF c = "c1" THEN BattlePlayer(c, 1, first.Team)
                                 ELSE BattlePlayer(c, 2, second.Team)]
  /\ entities = [id \in {1, 2} |-> IF id = 1 THEN first ELSE second]
  /\ Status = "playing" /\ isRunning = TRUE /\ shutdown = FALSE
  /\ scores = <<>>
  /\ frameID = 0 /\ lastFrameTime = 0 /\ StartedAt = 0 /\ EndedAt = 0 /\ lastActivity = 0
  /\ playerMutex = [w |-> "none", r |-> {}] /\ entityMutex = "none"
  /\ loop = At("select") /\ caller = NoCaller
  /\ now = 0 /\ nextID = 1
  /\ applied = <<>>
  /\ ev = "-"
  /\ InitService
  /\ InitManager

InGame(roster, first, second) == InGameRoom(roster, first, second) /\ Connected(roster)

\* free-for-all, as AddPlayer leaves it
InitBattle ==
  /\ Mode = "death_match" /\ FriendlyFire = FALSE
  /\ \E pos2 \in SpawnPoints :
        \/ InGame({"c1", "c2"}, NewPlayerEntity(1, TeamNone, <<0, 0>>),
                  NewPlayerEntity(2, TeamNone, pos2))
        \/ InGame({"c1"}, NewPlayerEntity(1, TeamNone, <<0, 0>>),
                  NewPlayerEntity(1, TeamNone, pos2))

\* The team rosters are drawn, as AddPlayer does not return in a team mode:
\* two players within reach of each other, on one team or on two.
InitTeams ==
  /\ Mode = "team_death_match" /\ FriendlyFire \in BOOLEAN
  /\ \E team2 \in {TeamRed, TeamBlue} :
        InGame({"c1", "c2"}, NewPlayerEntity(1, TeamRed, <<0, 0>>),
               NewPlayerEntity(2, team2, <<0, 0>>))

NextBattle ==
  \/ \E c \in {"c1"} : RemovePlayerBegin(c)
  \/ RemovePlayerFinish
  \/ \E o \in PlayerEntities, dir \in Directions, dmg \in Damages :
        CreateProjectile(o, dir, dmg, ProjectileSpeed, ProjectileLifeTime)
  \/ \E dt \in DeltaTimes : LoopSelect(dt)
  \/ update
  \/ detectCollisions
  \/ creditKill
  \/ creditDeath
  \/ broadcastCollisions
  \/ checkGameEnd

SpecBattle == InitBattle /\ [][NextBattle]_vars

SpecTeams == InitTeams /\ [][NextBattle]_vars

\* The free-for-all game while its members' connections end and the server
\* is stopped: the frames of the ticks go to the roster's Send channels.
NextClosing ==
  \/ \E c \in Clients : readPumpExit(c)
  \/ ServerStopBegin
  \/ ServerStopEnd
  \/ \E o \in PlayerEntities, dir \in Directions, dmg \in Damages :
        CreateProjectile(o, dir, dmg, ProjectileSpeed, ProjectileLifeTime)
  \/ \E dt \in DeltaTimes : LoopSelect(dt)
  \/ update
  \/ detectCollisions
  \/ creditKill
  \/ creditDeath
  \/ broadcastCollisions
  \/ checkGameEnd

SpecClosing == InitBattle /\ [][NextClosing]_vars

\* The free-for-all game with projectiles that fly: towards +x, from one
\* spawn point to the other in a short tick.
MovingDirections == {<<1, 0>>}

NextMotion ==
  \/ \E o \in PlayerEntities, dir \in MovingDirections, dmg \in Damages :
        CreateProjectile(o, dir, dmg, ProjectileSpeed, ProjectileLifeTime)
  \/ \E dt \in DeltaTimes : LoopSelect(dt)
  \/ update
  \/ detectCollisions
  \/ creditKill
  \/ creditDeath
  \/ broadcastCollisions
  \/ checkGameEnd

SpecMotion == InitBattle /\ [][NextMotion]_vars

\* A free-for-all game that c2 has left, in which c1 uses the skills.
InitSkills ==
  /\ Mode = "death_match" /\ FriendlyFire = FALSE
  /\ players = [c \in {"c1"} |-> BattlePlayer(c, 1, TeamNone)]
  /\ entities = [id \in {1} |-> NewPlayerEntity(1, TeamNone, <<0, 0>>)]
  /\ Status = "playing" /\ isRunning = TRUE /\ shutdown = FALSE
  /\ scores = <<>>
  /\ frameID = 0 /\ lastFrameTime = 0 /\ StartedAt = 0 /\ EndedAt = 0 /\ lastActivity = 0
  /\ playerMutex = [w |-> "none", r |-> {}] /\ entityMutex = "none"
  /\ loop = At("select") /\ caller = NoCaller
  /\ now = 0 /\ nextID = 1
  /\ applied = <<>>
  /\ ev = "-"
  /\ InitService
  /\ InitManager
  /\ Connected({"c1"})

NextSkills ==
  \/ \E p \in PlayerEntities, s \in SkillIDs, dir \in SkillDirections : UseSkill(p, s, dir)
  \/ \E dt \in DeltaTimes : LoopSelect(dt)
  \/ update
  \/ detectCollisions
  \/ broadcastCollisions
  \/ checkGameEnd

SpecSkills == InitSkills /\ [][NextSkills]_vars

\* The match service beside a room it does not touch.
InitMatch == Mode = "death_match" /\ InitRoom

NextMatch ==
  \/ \E playerID \in MatchPlayers, gameMode \in MatchModes : AddToQueue(playerID, gameMode)
  \/ \E playerID \in MatchPlayers, gameMode \in MatchModes : RemoveFromQueue(playerID, gameMode)
  \/ processMatching

SpecMatch == InitMatch /\ [][NextMatch]_vars

\* A game whose members read slowly: what earlier sends left in their Send
\* channels is drawn, and writePump takes it out at its own pace.
Buffered(cs) ==
  /\ serverRunning = TRUE /\ serverShutdown = FALSE /\ stopping = FALSE
  /\ connections = cs
  /\ Send \in [Conns -> 0..SendCapacity]
  /\ \A c \in Conns \ cs : Send[c] = 0
  /\ closes = [c \in Conns |-> 0]
  /\ pending = [c \in Conns |-> 0]
  /\ reading = cs /\ writing = cs
  /\ otherRoster = {}
  /\ panic = "none"

InitFrames ==
  /\ Mode = "death_match" /\ FriendlyFire = FALSE
  /\ InGameRoom({"c1", "c2"}, NewPlayerEntity(1, TeamNone, <<0, 0>>),
                NewPlayerEntity(2, TeamNone, <<0, 0>>))
  /\ Buffered({"c1", "c2"})

NextFrames ==
  \/ \E o \in PlayerEntities, dir \in Directions, dmg \in Damages :
        CreateProjectile(o, dir, dmg, ProjectileSpeed, ProjectileLifeTime)
  \/ \E dt \in DeltaTimes : LoopSelect(dt)
  \/ update
  \/ detectCollisions
  \/ creditKill
  \/ creditDeath
  \/ broadcastCollisions
  \/ checkGameEnd
  \/ \E c \in Clients : writePump(c)

SpecFrames == InitFrames /\ [][NextFrames]_vars

\* The connection layer from NewGameServer on; the room has not been started.
InitConn == Mode = "death_match" /\ InitRoom

NextConn ==
  \/ ServerStart
  \/ \E c \in Clients : handleWSConnection(c)
  \/ \E c \in Clients : readPumpExit(c)
  \/ \E c \in Clients : handleLeaveRoom(c)
  \/ \E c \in Clients : writePump(c)
  \/ \E c \in Clients : writePumpExit(c)
  \/ \E c \in Clients : sendMessage(c)
  \/ broadcastMessage
  \/ \E c \in Clients : closeConnectionLater(c)
  \/ ServerStopBegin
  \/ ServerStopEnd

SpecConn == InitConn /\ [][NextConn]_vars

\* Two Waiting rooms of one server and its connections: a connected client
\* is added to a room and removed from it, sends leave_room, or goes away.
NextRosters ==
  \/ ServerStart
  \/ \E c \in Clients : handleWSConnection(c)
  \/ \E c \in Clients : readPumpExit(c)
  \/ \E c \in Clients : handleLeaveRoom(c)
  \/ \E c \in Clients : c \in connections /\ AddPlayerBegin(c, <<0, 0>>)
  \/ AddPlayerFinish
  \/ \E c \in Clients : RemovePlayerBegin(c)
  \/ RemovePlayerFinish
  \/ \E c \in Clients : c \in connections /\ AddPlayerOther(c)
  \/ \E c \in Clients : RemovePlayerOther(c)

SpecRosters == InitConn /\ [][NextRosters]_vars

\* A Waiting room of a running server, its roster, the passing of time and
\* the idle sweep.  No player is ever ready, so the game does not begin.
\* The lobby as the connections drive it: they join the room, send ready
\* and unready, and the room's loop runs its ready-check.
NextReady ==
  \/ ServerStart
  \/ \E c \in Clients : handleWSConnection(c)
  \/ \E c \in Clients : c \in connections /\ AddPlayerBegin(c, <<0, 0>>)
  \/ AddPlayerFinish
  \/ \E c \in Clients, b \in BOOLEAN : handlePlayerReady(c, b)
  \/ Start
  \/ \E dt \in LobbyDeltaTimes : LoopSelect(dt)
  \/ checkGameStart

SpecReady == InitConn /\ [][NextReady]_vars

NextSweep ==
  \/ ServerStart
  \/ Start
  \/ Stop
  \/ \E c \in {"c1"} : AddPlayerBegin(c, <<0, 0>>)
  \/ AddPlayerFinish
  \/ \E c \in {"c1"} : RemovePlayerBegin(c)
  \/ RemovePlayerFinish
  \/ \E dt \in LobbyDeltaTimes : LoopSelect(dt)
  \/ checkGameStart
  \/ \E d \in Minutes : Pass(d)
  \/ sweepIsEmpty
  \/ sweepDecide
  \/ sweepRemove

SpecSweep == InitConn /\ [][NextSweep]_vars

\* A Waiting room that is started and stopped by any callers at any time
\* (no player is ever ready, so that no game begins).
NextLoops ==
  \/ StartTest
  \/ StartSpawn
  \/ Stop
  \/ \E c \in {"c1"} : AddPlayerBegin(c, <<0, 0>>)
  \/ AddPlayerFinish
  \/ \E c \in {"c1"} : RemovePlayerBegin(c)
  \/ RemovePlayerFinish
  \/ \E dt \in LobbyDeltaTimes : LoopSelect(dt)
  \/ checkGameStart
  \/ LoopSelect2
  \/ checkGameStart2

SpecLoops == InitConn /\ [][NextLoops]_vars

\* ================================================================ properties

\* C1: whatever the interleaving of AddPlayer and RemovePlayer calls, the
\* roster never holds more than MaxPlayers entries.
RosterWithinCapacity == Cardinality(Roster) <= MaxPlayers

\* the roster is full, and a further AddPlayer has just been refused
RosterFullAndRefusing == Cardinality(Roster) = MaxPlayers /\ ev = "AddPlayer: full"

\* C2: the status only moves Waiting -> Playing -> Ended, never backwards, and
\* an Ended room keeps its status, under every interleaving of the tick loop
\* with Stop.
StatusOnlyForward ==
  [][/\ Status = "playing" => Status' \in {"playing", "ended"}
     /\ Status = "ended" => Status' = "ended"]_vars

\* C3: AddPlayer is refused as full only with the roster at MaxPlayers, as
\* closed only with a status other than Waiting, and is admitted only below
\* capacity in a Waiting room; a refusal leaves the roster, the entity map and
\* the last-activity time as they were.
AddPlayerRefusals ==
  [][/\ ev' = "AddPlayer: full" =>
          /\ Cardinality(Roster) = MaxPlayers
          /\ UNCHANGED <<players, entities, lastActivity>>
     /\ ev' = "AddPlayer: closed" =>
          /\ Status # "waiting"
          /\ UNCHANGED <<players, entities, lastActivity>>
     /\ (caller.pc = "idle" /\ caller'.pc \in {"add", "assignTeam"}) =>
          /\ Cardinality(Roster) < MaxPlayers
          /\ Status = "waiting"]_vars

\* a Playing room with a free place has just refused an AddPlayer
RefusedWhilePlaying ==
  ev = "AddPlayer: closed" /\ Status = "playing" /\ Cardinality(Roster) < MaxPlayers

\* C4: the ready-check of a Waiting room's tick sets the status to Playing
\* exactly when the roster has at least 2 players, all of them Ready; otherwise
\* the status stays Waiting.
StartsExactlyWhenAllReady ==
  [][(loop.pc = "checkGameStart" /\ loop'.pc = "select" /\ Status = "waiting") =>
        /\ Status' = "playing" <=>
             (Cardinality(Roster) >= 2 /\ \A c \in Roster : players[c].Ready)
        /\ Status' \in {"waiting", "playing"}]_vars

\* the ready-check has just started the game of a full, ready roster
StartedByReadyCheck ==
  /\ Status = "playing" /\ frameID = 0 /\ loop.pc = "select"
  /\ Cardinality(Roster) = 2 /\ \A c \in Roster : players[c].Ready

\* C5: the end-of-game evaluation of a Playing room's tick sets the status to
\* Ended exactly when the time since the start is at least TimeLimit seconds or
\* some player's score is at least ScoreLimit.
EndsExactlyAtALimit ==
  [][(loop.pc = "checkGameEnd" /\ loop'.pc = "select" /\ Status = "playing") =>
        (Status' = "ended" <=>
           \/ now - StartedAt >= TimeLimit * 1000
           \/ \E p \in DOMAIN scores : scores[p] >= ScoreLimit)]_vars

\* a game ended on the score, before its time was up
EndedOnScore ==
  /\ Status = "ended" /\ loop.pc = "select"
  /\ now - StartedAt < TimeLimit * 1000
  /\ \E p \in DOMAIN scores : scores[p] = ScoreLimit

FriendlyFireSetting ==
  [][\A p \in Projectiles, q \in PlayerEntities :
       LET o == entities[p].OwnerID
           teammates == /\ IsPlayer(entities, o) /\ o # q
                        /\ entities[o].Team = entities[q].Team
                        /\ entities[o].Team \in {TeamRed, TeamBlue}
           hits(x) == Count(applied', <<x, q>>) > Count(applied, <<x, q>>)
       IN  /\ (teammates /\ ~FriendlyFire) => ~hits(p)
           /\ ( /\ teammates /\ FriendlyFire
                /\ loop.pc = "detectCollisions"
                /\ loop'.pc \in {"broadcastCollisions", "checkGameEnd"}
                /\ entities[q].IsAlive /\ q \notin entities[p].HitEntities
                /\ Intersects(entities, p, q) )
              => (hits(p) \/ ~entities'[q].IsAlive)
           /\ ( /\ teammates /\ FriendlyFire /\ hits(p)
                /\ \A x \in Projectiles \ {p} : ~hits(x) )
              => entities'[q].Health =
                   (IF entities[q].Health - entities[p].Damage <= 0 THEN 0
                    ELSE entities[q].Health - entities[p].Damage)]_vars

\* FriendlyFire is on and a player has lost health to a teammate's projectile
HitByTeammate ==
  /\ FriendlyFire
  /\ \E p \in Projectiles, q \in PlayerEntities :
        /\ IsPlayer(entities, entities[p].OwnerID) /\ entities[p].OwnerID # q
        /\ entities[entities[p].OwnerID].Team = TeamRed /\ entities[q].Team = TeamRed
        /\ Count(applied, <<p, q>>) = 1
        /\ entities[q].Health = entities[q].MaxHealth - entities[p].Damage

\* C8: every player entity has 0 <= Health <= MaxHealth and is alive exactly
\* when its Health is positive; a dead player becomes alive only in the entity
\* update of a tick, with a respawn countdown that is <= 0.
HealthAndLife ==
  /\ [](\A id \in PlayerEntities :
          /\ 0 <= entities[id].Health /\ entities[id].Health <= entities[id].MaxHealth
          /\ entities[id].IsAlive <=> entities[id].Health > 0)
  /\ [][\A id \in PlayerEntities :
          (~entities[id].IsAlive /\ IsPlayer(entities', id) /\ entities'[id].IsAlive) =>
             /\ loop.pc = "update" /\ loop'.pc = "detectCollisions"
             /\ entities'[id].RespawnTime <= 0]_vars

\* a player who was hit and died is alive again, at full health
Respawned ==
  \E id \in PlayerEntities :
     /\ entities[id].IsAlive /\ entities[id].Health = entities[id].MaxHealth
     /\ entities[id].RespawnTime <= 0
     /\ \E p \in Projectiles : id \in entities[p].HitEntities

\* C9: a lethal hit by a projectile whose owner is a player of the room adds 1
\* to the owner's Kills and score and 1 to the victim's Deaths; no other step,
\* a non-lethal hit included, changes a Kills, a Deaths or a score.
KillAndDeathCredited ==
  [][/\ (loop.pc = "creditKill" /\ loop'.pc = "creditDeath" /\ InRoster(loop.owner)) =>
          /\ entities'[loop.owner].Kills = entities[loop.owner].Kills + 1
          /\ Count(scores', entities[loop.owner].PlayerID) =
               Count(scores, entities[loop.owner].PlayerID) + 1
     /\ (loop.pc = "creditDeath" /\ loop'.pc # "creditDeath" /\ InRoster(loop.owner)) =>
          entities'[loop.victim].Deaths = entities[loop.victim].Deaths + 1
     /\ loop.pc \notin {"creditKill", "creditDeath"} =>
          /\ scores' = scores
          /\ \A id \in PlayerEntities :
                IsPlayer(entities', id) =>
                   /\ entities'[id].Kills = entities[id].Kills
                   /\ entities'[id].Deaths = entities[id].Deaths]_vars

\* C10: in a matching pass, for each mode on its own: a queue that holds at
\* least the mode's player count (4 for death_match, 6 for team_death_match)
\* gives rise to exactly one room, loses exactly that many requests from its
\* head, which are the matched batch in their order, and keeps the others in
\* their order; a shorter queue is left as it is and no room is created.
MatchingPass ==
  [][ev' = "processMatching" =>
       \A m \in MatchModes :
          LET n == IF m = "death_match" THEN 4 ELSE 6
              old == queues[m]
              new == queues'[m]
          IN  IF Len(old) >= n
              THEN /\ created'[m] = created[m] + 1
                   /\ Len(new) = Len(old) - n
                   /\ \A i \in 1..Len(new) : new[i] = old[i + n]
                   /\ Len(matched'[m]) = n
                   /\ \A i \in 1..n : matched'[m][i] = old[i]
              ELSE /\ created'[m] = created[m]
                   /\ new = old
                   /\ matched'[m] = <<>>]_vars

\* a pass has matched the four oldest death_match requests into the mode's
\* first room; a later one stays queued, and so does the short queue of the
\* other mode
MatchedWithRemainder ==
  /\ ev = "processMatching"
  /\ Len(matched["death_match"]) = 4 /\ created["death_match"] = 1
  /\ Len(queues["death_match"]) > 0
  /\ Len(queues["team_death_match"]) > 0 /\ created["team_death_match"] = 0

\* C11: under any interleaving of AddToQueue, RemoveFromQueue and the matching
\* pass, every request received is in exactly one place: once in a queue, or
\* withdrawn once, or matched into one room; never in two rooms, never both
\* matched and withdrawn.
OneFatePerRequest ==
  \A r \in 1..(nextRequest - 1) :
     LET queued == Cardinality({<<m, i>> \in MatchModes \X (1..MaxRequests) :
                                  i <= Len(queues[m]) /\ queues[m][i].Request = r})
     IN  /\ r \in DOMAIN fate
         /\ queued + fate[r].matched + fate[r].withdrawn = 1

\* after a join, a withdrawal and a pass: one request is matched, one is
\* withdrawn and one is still queued
AllThreeFates ==
  /\ \E r \in DOMAIN fate : fate[r].matched = 1
  /\ \E r \in DOMAIN fate : fate[r].withdrawn = 1
  /\ \E m \in MatchModes : Len(queues[m]) > 0

\* C12: AddToQueue puts the new request at the tail of its mode's queue and
\* leaves the other queues as they are, so that every queue lists its requests
\* in the order in which they were submitted.
InsertionOrdered ==
  /\ [](\A m \in MatchModes : \A i, j \in 1..Len(queues[m]) :
          i < j => queues[m][i].Request < queues[m][j].Request)
  /\ [][nextRequest' # nextRequest =>
          \E m \in MatchModes :
             /\ Len(queues'[m]) = Len(queues[m]) + 1
             /\ \A i \in 1..Len(queues[m]) : queues'[m][i] = queues[m][i]
             /\ queues'[m][Len(queues[m]) + 1].Request = nextRequest
             /\ \A other \in MatchModes \ {m} : queues'[other] = queues[other]]_vars

\* a request has just joined behind two older ones of its mode, which are not
\* neighbours in the order of arrival
JoinedBehindOlder ==
  /\ ev = "-"
  /\ \E m \in MatchModes :
        /\ Len(queues[m]) >= 3
        /\ queues[m][Len(queues[m])].Request = nextRequest - 1
        /\ queues[m][2].Request > queues[m][1].Request + 1

\* C13: RemoveFromQueue(playerID, mode) takes out the earliest request of that
\* player in that mode's queue, keeps the others in their order and returns
\* true; with no such request it returns false and changes no queue.
RemovesEarliestRequest ==
  [][\A p \in MatchPlayers, m \in MatchModes :
       RemoveFromQueue(p, m) =>
         LET held == {i \in 1..Len(queues[m]) : queues[m][i].PlayerID = p}
         IN  IF held = {}
             THEN ev' = "RemoveFromQueue: false" /\ queues' = queues
             ELSE LET first == CHOOSE i \in held : \A j \in held : i <= j
                  IN  /\ ev' = "RemoveFromQueue: true"
                      /\ Len(queues'[m]) = Len(queues[m]) - 1
                      /\ \A i \in 1..Len(queues'[m]) :
                            queues'[m][i] = queues[m][IF i < first THEN i ELSE i + 1]
                      /\ \A other \in MatchModes \ {m} :
                            queues'[other] = queues[other]]_vars

\* a withdrawal has taken a request from between two others, which stay queued
WithdrawnFromTheMiddle ==
  /\ ev = "RemoveFromQueue: true"
  /\ \E m \in MatchModes : \E i \in 1..Len(queues[m]) :
        /\ i >= 2
        /\ queues[m][i].Request > queues[m][i - 1].Request + 1
        /\ \E r \in DOMAIN fate :
              /\ fate[r].withdrawn = 1
              /\ queues[m][i - 1].Request < r
              /\ r < queues[m][i].Request

\* C14: a matching pass that finds four requests in the free-for-all queue
\* creates a room, sends every one of the four players a notification that
\* carries the room, and leaves the depth of that queue at 0.
FourJoinedAreNotified ==
  [][(processMatching /\ Len(queues["death_match"]) = 4) =>
        /\ created'["death_match"] = created["death_match"] + 1
        /\ Len(queues'["death_match"]) = 0
        /\ \A i \in 1..4 : queues["death_match"][i].Request \in notified']_vars

\* C16: closing a connection is safe whoever does it, and however often: the
\* read pump's exit, a send that overflows and GameServer.Stop between them
\* close a Send channel once, never twice, and a connection whose channel is
\* closed is out of the registry.
ClosedOnceAndDeregistered ==
  /\ panic # "close of closed channel"
  /\ \A c \in Conns : closes[c] <= 1 /\ (closes[c] = 1 => c \notin connections)

\* C17: a message sent to a connection whose Send channel is full, by
\* sendMessage, by broadcastMessage or by a room's frame broadcast, is not
\* enqueued, and the connection is closed (broadcastMessage leaves the closing
\* to a goroutine it starts).
OverflowCloses ==
  [][\A c \in Conns :
       (/\ Full(c) /\ closes[c] = 0
        /\ \/ sendMessage(c)
           \/ broadcastMessage /\ c \in connections
           \/ broadcastCollisions /\ c \in Roster)
       => /\ Send'[c] = Send[c]
          /\ c \notin connections' \/ pending'[c] > pending[c]]_vars

\* C18: a tick does not wait for a member's Send channel.  The frame
\* broadcast can always take its step, whatever the channels hold; when it
\* finds a member's channel full it leaves that channel as it is and the tick
\* goes on to the end-of-game test, which can always take its step and gives
\* the loop back to its select, where the next tick of the game can run.
TickOutlastsFullQueue ==
  /\ [](loop.pc = "broadcastCollisions" => ENABLED broadcastCollisions)
  /\ [][(broadcastCollisions /\ \E c \in Roster : Full(c)) =>
          /\ loop'.pc = "checkGameEnd"
          /\ \A c \in Roster : Full(c) => Send'[c] = Send[c]]_vars
  /\ [](loop.pc = "checkGameEnd" => ENABLED checkGameEnd)
  /\ [][checkGameEnd => loop'.pc = "select"]_vars
  /\ [](loop.pc = "select" /\ Status = "playing" /\ frameID < MaxFrames
          => ENABLED (\E dt \in DeltaTimes : LoopSelect(dt) /\ loop'.pc = "update"))

\* the broadcast has passed over a full channel, which is still full
SkippedAFullQueue ==
  /\ ev = "broadcastCollisions: skipped"
  /\ loop.pc = "checkGameEnd"
  /\ \E c \in Roster : Full(c)

\* C19: whatever AddPlayer, RemovePlayer, leave_room and the closing of
\* connections have done, no connection is in the roster of two rooms.
InAtMostOneRoom == \A c \in Conns : ~(c \in Roster /\ c \in otherRoster)

\* C20: RemovePlayer of a member takes the member's roster entry and its
\* entity away, keeps every other entry and entity, and leaves the room's
\* status as it is, also when the roster becomes empty; RemovePlayer of a
\* connection that is not a member changes nothing of the room, its time of
\* last activity included.
RemovePlayerEffect ==
  [][/\ \A c \in Conns :
          RemovePlayerBegin(c) =>
             IF c \in Roster
             THEN /\ UNCHANGED <<players, entities, Status, lastActivity>>
                  /\ caller'.conn = c
             ELSE UNCHANGED room
     /\ RemovePlayerFinish =>
          /\ Roster' = Roster \ {caller.conn}
          /\ \A c \in Roster' : players'[c] = players[c]
          /\ DOMAIN entities' = DOMAIN entities \ {players[caller.conn].Entity}
          /\ \A id \in DOMAIN entities' : entities'[id] = entities[id]
          /\ Status' = Status
          /\ lastActivity' = now]_vars

\* the last member has left a game under way, which is still Playing
EmptiedWhilePlaying ==
  /\ Status = "playing"
  /\ Roster = {}
  /\ entities = <<>>
  /\ caller = NoCaller

\* C21: ShouldCleanup is true exactly when the room has been empty for more
\* than 5 minutes since its last activity, or has been Ended for more than 2
\* minutes, whether it is empty or not.
ShouldCleanupExactly ==
  ShouldCleanup <=> \/ Roster = {} /\ now - lastActivity > IdleThreshold
                    \/ Status = "ended" /\ now - EndedAt > EndedGrace

\* C22: the idle sweep removes no room that is not Ended and either has a
\* player or has had activity within the last 5 minutes.
SweepSparesLiveRooms ==
  [][sweepRemove =>
       ~(/\ Status # "ended"
         /\ Roster # {} \/ now - lastActivity <= IdleThreshold)]_vars

\* C23: a room has at most one game loop, and so at most one tick (update or
\* ready-check) in progress, whatever Start calls have been made.
OneGameLoop ==
  /\ ~(LoopExists /\ Loop2Exists)
  /\ ~(loop.pc \notin {"none", "select", "done"} /\ loop2 = "checkGameStart")

\* C24: within a tick a message goes out to the members only when the
\* entity lock has been released and nothing of the tick is left to do: the
\* entities are updated, the collisions resolved and the end of the game
\* evaluated, so that the loop goes back to its select.
SendsAfterTheTick ==
  [][(broadcastCollisions /\ Send' # Send) =>
        /\ entityMutex = "none"
        /\ loop'.pc = "select"]_vars

\* C25: a shutdown of the room from outside, in whatever state the room is
\* (also before the Start that CreateRoom has spawned has run), leaves it
\* Ended with its shutdown channel closed, so that the tick loop exits at its
\* select and no tick follows.
ShutdownEndsTheRoom ==
  [][(Stop \/ sweepRemove \/ (ServerStopBegin /\ serverShutdown' /\ inRooms)) =>
        /\ Status' = "ended"
        /\ shutdown']_vars

CooldownHoldsTheSkill ==
  [][\A p \in PlayerEntities, s \in SkillIDs, dir \in SkillDirections :
       (UseSkill(p, s, dir) /\ Count(cooldowns, <<p, s>>) > 0) =>
          /\ entities' = entities
          /\ cooldowns' = cooldowns]_vars

\* A use of a skill has just been refused: its cooldown entry is above zero
\* and the projectile of the earlier use is in the entity map.
RefusedOnCooldown ==
  /\ ev = "UseSkill: on cooldown"
  /\ \E k \in DOMAIN cooldowns : cooldowns[k] > 0
  /\ Projectiles # {}

\* C28: UseSkill for a skill that is not on cooldown adds exactly the
\* projectiles of the table (skill 1: one of damage 10, skill 2: three of
\* damage 8, skill 3: one of damage 15), each owned by the firing player and
\* with an empty hit-set, and sets the skill's cooldown above zero; an unknown
\* skill id adds no projectile and sets no cooldown.
SkillTable ==
  [][\A p \in PlayerEntities, s \in SkillIDs, dir \in SkillDirections :
       (UseSkill(p, s, dir) /\ ~(Count(cooldowns, <<p, s>>) > 0)) =>
          LET new == (DOMAIN entities') \ (DOMAIN entities)
          IN  /\ Cardinality(new) = (IF s \in {1, 3} THEN 1 ELSE IF s = 2 THEN 3 ELSE 0)
              /\ \A id \in new :
                    /\ entities'[id].Type = "projectile"
                    /\ entities'[id].Damage = (IF s = 1 THEN 10 ELSE IF s = 2 THEN 8 ELSE 15)
                    /\ entities'[id].OwnerID = p
                    /\ entities'[id].HitEntities = {}
              /\ \A id \in DOMAIN entities :
                    id \in DOMAIN entities' /\ entities'[id] = entities[id]
              /\ IF s \in {1, 2, 3}
                 THEN <<p, s>> \in DOMAIN cooldowns' /\ cooldowns'[<<p, s>>] > 0
                 ELSE cooldowns' = cooldowns]_vars

\* The spread shot has just been fired: three projectiles of damage 8 and the
\* skill's cooldown.
SpreadShotFired ==
  /\ ev = "UseSkill"
  /\ Cardinality({id \in Projectiles : entities[id].Damage = 8}) = 3
  /\ \E p \in PlayerEntities : Count(cooldowns, <<p, 2>>) > 0

NoLockCycle ==
  ~(/\ loop.pc \in {"creditKill", "creditDeath"}
    /\ entityMutex = "loop"
    /\ caller.pc \in {"add", "remove"}
    /\ playerMutex.w = "caller"
    /\ ~ENABLED (creditKill \/ creditDeath \/ AddPlayerFinish \/ RemovePlayerFinish))

\* C31: an AddPlayer that a Waiting room below capacity admits always
\* returns, in the team modes as in free-for-all: once the entity lock is
\* free the call can finish, and when it does the roster holds the
\* connection and the entity map one new player entity with
\* Health = MaxHealth = 100 that is alive.
AddPlayerReturns ==
  /\ []((caller.pc \in {"assignTeam", "add"} /\ EntityMutexFree) => ENABLED AddPlayerFinish)
  /\ [][AddPlayerFinish =>
          /\ caller.conn \in DOMAIN players'
          /\ caller.entity \notin DOMAIN entities
          /\ caller.entity \in DOMAIN entities'
          /\ entities'[caller.entity].Type = "player"
          /\ entities'[caller.entity].Health = 100
          /\ entities'[caller.entity].MaxHealth = 100
          /\ entities'[caller.entity].IsAlive]_vars

\* C32: a dead player is restored once the ticks of the Playing room have
\* added up to the respawn delay: every tick's elapsed time counts, so a tick
\* over a dead player either brings the player back (alive, at full health,
\* velocity zero) or leaves the respawn countdown lower than it was.
TickTimeCountsTowardsRespawn ==
  [][update =>
       \A id \in PlayerEntities :
          (~entities[id].IsAlive /\ now - lastFrameTime > 0) =>
             \/ /\ entities'[id].IsAlive
                /\ entities'[id].Health = entities'[id].MaxHealth
                /\ entities'[id].Velocity = <<0, 0>>
             \/ entities'[id].RespawnTime < entities[id].RespawnTime]_vars

\* C33: a Waiting room with at least two members, each of whom has sent
\* `ready` (and none `unready` since, and none has left), goes to Playing:
\* the ready-check of the next tick starts the game.
ReadyMessagesStartTheGame ==
  [][(checkGameStart /\ Status = "waiting" /\ caller.pc = "idle"
        /\ Cardinality(Roster) >= MinPlayers /\ Roster \subseteq readied)
       => Status' = "playing"]_vars

\* C34: a connection whose pump has ended and that closeConnection has taken
\* out of the registry is a member of no room: no roster holds it and no
\* entity map holds its player entity.
ClosedConnectionLeavesRooms ==
  \A c \in Clients :
     (c \notin reading /\ c \notin connections /\ closes[c] >= 1 /\ caller.conn # c) =>
        /\ c \notin Roster
        /\ c \notin otherRoster

\* C35: a Playing tick updates the entities (expiry included), then detects
\* collisions, then evaluates the end of the game.  Collision detection finds
\* no projectile whose lifetime has run out; a projectile whose lifetime runs
\* out in a tick leaves the map in that tick's update, and damage is only
\* ever dealt by a projectile of the map with lifetime left; a score at
\* ScoreLimit in a room still Playing means the tick that raised it is not
\* over, and its end-of-game step ends the game.
TickOrder ==
  /\ []((loop.pc \in {"detectCollisions", "creditKill", "creditDeath", "broadcastCollisions"})
          => \A p \in Projectiles : entities[p].LifeTime > 0)
  /\ []((ScoreReached /\ Status = "playing")
          => loop.pc \in {"creditDeath", "creditKill", "broadcastCollisions", "checkGameEnd"})
  /\ [][/\ update =>
             \A p \in Projectiles :
                entities[p].LifeTime - (now - lastFrameTime) <= 0 => p \notin DOMAIN entities'
        /\ \A hit \in DOMAIN applied' :
             applied'[hit] # Count(applied, hit) =>
                /\ loop.pc \in {"detectCollisions", "creditDeath"}
                /\ hit[1] \in Projectiles /\ entities[hit[1]].LifeTime > 0
        /\ (checkGameEnd /\ ScoreReached) => Status' = "ended"]_vars

\* The second frame's update is done and the projectile that was fired is no
\* longer in the map: its lifetime ran out.
ExpiredBeforeDetection ==
  /\ loop.pc = "detectCollisions" /\ frameID = 2
  /\ nextID > 1
  /\ Projectiles = {}

\* C36: a projectile whose owner is no longer in the entity map is handled
\* within the tick.  When the pair loop has run through, every player it intersected
\* who was alive and not yet hit by it has been hit by it or is dead, the
\* team and the FriendlyFire setting notwithstanding; a player whom only such
\* projectiles killed gets no death counted and sets off no kill credit, and
\* kills are credited only for a projectile whose owner is in the map.
OwnerlessProjectile ==
  /\ []((loop.pc \in {"creditKill", "creditDeath"}) =>
           /\ IsPlayer(entities, loop.owner)
           /\ \E p \in Projectiles :
                 entities[p].OwnerID = loop.owner /\ loop.victim \in entities[p].HitEntities)
  /\ [][(detectCollisions \/ creditDeath) =>
          \A q \in PlayerEntities :
             LET ownerless == {p \in Projectiles : entities[p].OwnerID \notin DOMAIN entities}
                 hitters == {p \in Projectiles : /\ q \notin entities[p].HitEntities
                                                 /\ q \in entities'[p].HitEntities}
             IN  /\ (loop'.pc # "creditKill") =>
                       \A p \in ownerless :
                          (/\ entities[q].IsAlive /\ q \notin entities[p].HitEntities
                           /\ Intersects(entities, p, q)) =>
                             \/ q \in entities'[p].HitEntities
                             \/ ~entities'[q].IsAlive
                 /\ (/\ entities[q].IsAlive /\ ~entities'[q].IsAlive
                     /\ hitters \subseteq ownerless) =>
                       /\ entities'[q].Deaths = entities[q].Deaths
                       /\ scores' = scores
                       /\ \A o \in PlayerEntities : entities'[o].Kills = entities[o].Kills
                       /\ ~(loop'.pc = "creditKill" /\ loop'.victim = q)]_vars

\* The tick is over: the projectile of the Red player who left has killed
\* the other Red player, friendly fire being off; nothing was credited.
KilledByOwnerlessProjectile ==
  /\ loop.pc = "select" /\ frameID >= 1
  /\ ~FriendlyFire
  /\ 1 \notin DOMAIN entities
  /\ IsPlayer(entities, 2) /\ entities[2].Team = TeamRed
  /\ ~entities[2].IsAlive /\ entities[2].Deaths = 0
  /\ \E p \in Projectiles : entities[p].OwnerID = 1 /\ 2 \in entities[p].HitEntities
  /\ scores = <<>>

\* C37: a projectile never damages the player who fired it, and no player is
\* credited a kill or a score for their own death.
NoSelfHit ==
  /\ []((loop.pc \in {"creditKill", "creditDeath"}) => loop.owner # loop.victim)
  /\ [][\A hit \in DOMAIN applied' :
           applied'[hit] # Count(applied, hit) => entities[hit[1]].OwnerID # hit[2]]_vars

\* C38: no message is ever sent on a Send channel that has been closed, by
\* sendMessage, broadcastMessage or a room's frame broadcast, whatever
\* closeConnection and GameServer.Stop have done before.
NoSendOnClosed == panic # "send on closed channel"

\* C39: whenever no AddPlayer or RemovePlayer is under way, the roster and
\* the entity map agree on the players: every player entity of the map is
\* the entity of exactly one roster entry, and every roster entry's entity is
\* in the map.
RosterMatchesEntities ==
  caller.pc = "idle" =>
     /\ \A id \in PlayerEntities :
           Cardinality({c \in Roster : players[c].Entity = id}) = 1
     /\ \A c \in Roster : IsPlayer(entities, players[c].Entity)

\* C40: the requests that a matching pass puts into one room are of pairwise
\* distinct players.
BatchOfDistinctPlayers ==
  \A m \in MatchModes :
     \A i, j \in 1..Len(matched[m]) :
        i # j => matched[m][i].PlayerID # matched[m][j].PlayerID

====
